---- MODULE Spec2Model ----
(***************************************************************************)
(* Model of the A/B experiment engine: Randomizer.get_variant              *)
(* (src/src/engine/randomization.py) and ExperimentStats                   *)
(* (src/src/engine/stats.py), with the calls main.py makes on them.        *)
(*                                                                         *)
(* Numbers.  Python floats are modelled in fixed point:                    *)
(*   lift, p_a, p_b      in units of 1e-4 (the code rounds them to 4 dp)   *)
(*   p_value, alpha      in units of 1e-7                                  *)
(*   split               in units of 1e-3 (so split * 1000 is the number)  *)
(* A float that may be infinite or NaN is a record [cls, n, d]: cls is     *)
(* "fin" (the rational n/d, d > 0), "inf", "ninf" or "nan".  Rounded       *)
(* values and p-values keep the denominator of their unit.                 *)
(***************************************************************************)
EXTENDS Integers, Sequences, FiniteSets

VARIABLES
    op,      \* name of the call being made ("none" before the first)
    args,    \* its arguments
    ret,     \* its outcome: [raised, line, value]; Pending until it has run
    calls,   \* the get_variant calls made so far, in order: <<[args, variant]>>
    rng      \* state of numpy's global random generator (main.py:26)

vars == <<op, args, ret, calls, rng>>

\* Outcome of a call that returns v / that raises exception exc at source line ln.
Return(v) == [raised |-> "", line |-> 0, value |-> v]
Raise(exc, ln) == [raised |-> exc, line |-> ln, value |-> "no value"]
Pending == [raised |-> "pending", line |-> 0, value |-> "no value"]
Returned == ret.raised = ""
Raised == ret.raised \notin {"", "pending"}

(***************************************************************************)
(* ExperimentStats.get_decision                                            *)
(***************************************************************************)

\* The three verdict strings (stats.py:55, 57, 59; the leading emoji dropped).
BLOCK == "DO NOT SHIP: Guardrail Violated"
SHIP == "SHIP: Statistically Significant Gain"
INCONCLUSIVE == "INCONCLUSIVE: Keep A / Collect More Data"

\* Policy threshold -0.02 of stats.py:50, in units of 1e-4.
GuardrailThreshold == -200

\* Longest guardrail list explored.
MaxGuardrails == 2

\* Lift values explored (1e-4): around the threshold and around zero.
Lifts == {-300, -200, -100, 0, 1667}

\* A result dictionary handed to get_decision.  Every dictionary carries the
\* key "p_a"; "significant" and "lift" may each be present or missing.
Dicts ==
    {[p_a |-> 1200]}
    \cup {[p_a |-> 1200, significant |-> s] : s \in BOOLEAN}
    \cup {[p_a |-> 1200, lift |-> l] : l \in Lifts}
    \cup {[p_a |-> 1200, significant |-> s, lift |-> l] : s \in BOOLEAN, l \in Lifts}

Has(d, key) == key \in DOMAIN d

\* dict.get(key, default)
Get(d, key, default) == IF Has(d, key) THEN d[key] ELSE default

\* Variant of is_positive that also accepts a zero lift (>= for >).
is_positive_nonneg(primary_result) ==
    Get(primary_result, "significant", FALSE) /\ Get(primary_result, "lift", 0) >= 0

\* stats.py:46
is_positive(primary_result) ==
    Get(primary_result, "significant", FALSE) /\ Get(primary_result, "lift", 0) > 0

\* Variant of violates that also fires at the threshold itself (<= for <).
violates_inclusive(g) ==
    Get(g, "significant", FALSE) /\ Get(g, "lift", 0) <= GuardrailThreshold

\* stats.py:50, the predicate under any()
violates(g) ==
    Get(g, "significant", FALSE) /\ Get(g, "lift", 0) < GuardrailThreshold

\* stats.py:49-52
guardrail_violated(guardrail_results) ==
    \E i \in 1..Len(guardrail_results) : violates(guardrail_results[i])

\* stats.py:43-59
get_decision(primary_result, guardrail_results) ==
    IF guardrail_violated(guardrail_results) THEN BLOCK
    ELSE IF is_positive(primary_result) THEN SHIP
    ELSE INCONCLUSIVE

GuardrailLists == UNION {[1..n -> Dicts] : n \in 0..MaxGuardrails}

\* A caller holds a primary result and a list of guardrail results.
InitDecide ==
    /\ op = "get_decision"
    /\ args \in [primary_result : Dicts, guardrail_results : GuardrailLists]
    /\ ret = Pending
    /\ calls = <<>>
    /\ rng = 0

GetDecision ==
    /\ op = "get_decision"
    /\ ret = Pending
    /\ ret' = Return(get_decision(args.primary_result, args.guardrail_results))
    /\ UNCHANGED <<op, args, calls, rng>>

NextDecide == GetDecision

SpecDecide == InitDecide /\ [][NextDecide]_vars

DecisionMade == op = "get_decision" /\ ret # Pending

\* Guardrail g carries significant = true and a lift strictly below -0.02.
Regressed(g) ==
    /\ Has(g, "significant") /\ g.significant = TRUE
    /\ Has(g, "lift") /\ g.lift < -200

SomeRegressed == \E i \in 1..Len(args.guardrail_results) : Regressed(args.guardrail_results[i])

\* The primary result carries significant = true and a lift above zero.
PrimaryGain ==
    /\ Has(args.primary_result, "significant") /\ args.primary_result.significant = TRUE
    /\ Has(args.primary_result, "lift") /\ args.primary_result.lift > 0

\* C1: get_decision returns the BLOCK verdict if and only if some guardrail
\* has significant = true and lift strictly below -0.02, whatever the primary
\* result is; a lift of exactly -0.02, a non-significant guardrail or an empty
\* list never gives BLOCK.
C1_BlockIffGuardrailRegressed ==
    DecisionMade => (Returned /\ (ret.value = BLOCK <=> SomeRegressed))

\* C1 witness: BLOCK is returned although the primary is a significant gain.
C1_Witness ==
    /\ DecisionMade /\ ret.value = BLOCK /\ PrimaryGain
    /\ Len(args.guardrail_results) = 2
    /\ ~Regressed(args.guardrail_results[1])

\* C2: get_decision returns exactly one of SHIP, BLOCK, INCONCLUSIVE; when no
\* guardrail is violated it returns SHIP if and only if the primary has
\* significant = true and lift > 0, and INCONCLUSIVE in every other case.
C2_ShipIffPrimaryGain ==
    DecisionMade =>
        /\ Returned
        /\ ret.value \in {SHIP, BLOCK, INCONCLUSIVE}
        /\ ~SomeRegressed =>
              /\ ret.value = SHIP <=> PrimaryGain
              /\ ret.value = INCONCLUSIVE <=> ~PrimaryGain

\* C2 witness: INCONCLUSIVE for a significant primary whose lift is exactly
\* zero, next to a significant guardrail sitting exactly on the threshold.
C2_Witness ==
    /\ DecisionMade /\ ret.value = INCONCLUSIVE
    /\ args.primary_result = [p_a |-> 1200, significant |-> TRUE, lift |-> 0]
    /\ args.guardrail_results = <<[p_a |-> 1200, significant |-> TRUE, lift |-> -200]>>

PrimaryMalformed ==
    ~Has(args.primary_result, "significant") \/ ~Has(args.primary_result, "lift")

\* C3: when the primary result lacks the 'significant' or the 'lift' field,
\* get_decision signals an error and returns no verdict.
C3_MalformedPrimaryRaises ==
    (DecisionMade /\ PrimaryMalformed) => Raised

(***************************************************************************)
(* Randomizer.get_variant                                                  *)
(***************************************************************************)

\* Subjects and experiments explored (main.py:21 names subjects "user_<i>").
UserIds == {"user_0", "user_1", "user_2"}
ExperimentIds == {"checkout_test", "pricing_test"}

\* Split values explored, in units of 1e-3: -0.5, 0, 0.217, 0.5, 1, 1.5.
\* 0.217 is the bucket of user_2 in checkout_test, divided by 1000.
Splits == {-500, 0, 217, 500, 1000, 1500}

\* Most get_variant calls followed in one run, and most random draws.
MaxCalls == 2
MaxDraws == 1

\* randomization.py:17, the modulus of the bucket.
NumBuckets == 1000

\* randomization.py:13 and the [:8] of line 17: the first 8 hexadecimal digits
\* of the SHA-256 digest of input_str, most significant first (the values are
\* those of hashlib.sha256 for the keys explored).
sha256_hex8(input_str) ==
    CASE
            input_str = "user_0_checkout_test" -> <<1, 4, 10, 14, 6, 1, 12, 6>>   \* 14ae61c6
         [] input_str = "user_1_checkout_test" -> <<3, 11, 6, 12, 10, 4, 1, 11>>   \* 3b6ca41b
         [] input_str = "user_2_checkout_test" -> <<12, 15, 3, 3, 4, 14, 12, 9>>   \* cf334ec9
         [] input_str = "user_0_pricing_test" -> <<7, 11, 7, 2, 8, 8, 8, 7>>   \* 7b728887
         [] input_str = "user_1_pricing_test" -> <<10, 2, 15, 14, 1, 4, 8, 4>>   \* a2fe1484
         [] input_str = "user_2_pricing_test" -> <<1, 0, 1, 11, 4, 6, 11, 12>>   \* 101b46bc

\* int(digits, 16) % m, computed digit by digit (Horner) so that no value
\* leaves 32 bits: (x * 16 + d) % m = ((x % m) * 16 + d) % m.
RECURSIVE int16_mod(_, _)
int16_mod(digits, m) ==
    IF digits = <<>> THEN 0
    ELSE (int16_mod(SubSeq(digits, 1, Len(digits) - 1), m) * 16 + digits[Len(digits)]) % m

\* randomization.py:10-17
bucket_of(user_id, experiment_id) ==
    LET input_str == user_id \o "_" \o experiment_id
        hash_hex8 == sha256_hex8(input_str)
    IN  int16_mod(hash_hex8, NumBuckets)

\* Variant that draws the bucket from numpy's generator instead of the hash.
get_variant_random(user_id, experiment_id, split) ==
    IF (bucket_of(user_id, experiment_id) + 500 * rng) % NumBuckets < split THEN "B" ELSE "A"

\* Variant that compares with <= instead of <.
get_variant_inclusive(user_id, experiment_id, split) ==
    IF bucket_of(user_id, experiment_id) <= split THEN "B" ELSE "A"

\* randomization.py:5-20.  split is in units of 1e-3, so the code's
\* split * 1000 is the number split itself.
get_variant(user_id, experiment_id, split) ==
    IF bucket_of(user_id, experiment_id) < split THEN "B" ELSE "A"

InitAssign ==
    /\ op = "none"
    /\ args = [user_id |-> "", experiment_id |-> "", split |-> 0]
    /\ ret = Pending
    /\ calls = <<>>
    /\ rng = 0

\* One call of get_variant (main.py:22, simulator.py:17), with any arguments.
GetVariant ==
    \E u \in UserIds, e \in ExperimentIds, s \in Splits :
        /\ Len(calls) < MaxCalls
        /\ op' = "get_variant"
        /\ args' = [user_id |-> u, experiment_id |-> e, split |-> s]
        /\ ret' = Return(get_variant(u, e, s))
        /\ calls' = Append(calls, [user_id |-> u, experiment_id |-> e, split |-> s,
                                   variant |-> get_variant(u, e, s)])
        /\ rng' = rng

\* One draw of np.random.binomial (main.py:26, simulator.py:22): it advances
\* the global generator and touches nothing else.
Binomial ==
    /\ rng < MaxDraws
    /\ rng' = rng + 1
    /\ UNCHANGED <<op, args, ret, calls>>

NextAssign == GetVariant \/ Binomial

SpecAssign == InitAssign /\ [][NextAssign]_vars

C5_InvalidSplitRaises ==
    (op = "get_variant" /\ (args.split < 0 \/ args.split > 1000)) => Raised

\* C6: the bucket is in 0..999 and the label is 'B' exactly when
\* bucket < split * 1000; split = 0 gives 'A' and split = 1 gives 'B' for
\* every subject, without an error; for a fixed subject and experiment a larger
\* split never turns a 'B' into an 'A'.
C6_BucketThreshold ==
    /\ op = "get_variant" => Returned
    /\ \A i \in 1..Len(calls) :
         LET c == calls[i]
             b == bucket_of(c.user_id, c.experiment_id)
         IN  /\ b \in 0..999
             /\ c.variant = "B" <=> b < c.split
             /\ c.split = 0 => c.variant = "A"
             /\ c.split = 1000 => c.variant = "B"
    /\ \A i, j \in 1..Len(calls) :
         ( /\ calls[i].user_id = calls[j].user_id
           /\ calls[i].experiment_id = calls[j].experiment_id
           /\ calls[i].split <= calls[j].split
           /\ calls[i].variant = "B" ) => calls[j].variant = "B"

\* C6 witness: user_2 of checkout_test (bucket 217) got 'A' at split 0.217,
\* where the bucket equals the threshold, and 'B' at split 1.
C6_Witness ==
    /\ Len(calls) = 2
    /\ calls[1] = [user_id |-> "user_2", experiment_id |-> "checkout_test",
                   split |-> 217, variant |-> "A"]
    /\ calls[2] = [user_id |-> "user_2", experiment_id |-> "checkout_test",
                   split |-> 1000, variant |-> "B"]

(***************************************************************************)
(* Floating point: IEEE-754 values as numpy computes with them             *)
(***************************************************************************)

Abs(x) == IF x < 0 THEN -x ELSE x

RECURSIVE GCD(_, _)
GCD(a, b) == IF b = 0 THEN a ELSE GCD(b, a % b)

\* The finite float n/d, reduced, with a positive denominator (d # 0).
Rat(n, d) ==
    LET g == GCD(Abs(n), Abs(d))
        s == IF d < 0 THEN -1 ELSE 1
    IN  [cls |-> "fin", n |-> (s * n) \div g, d |-> (s * d) \div g]

I(k) == Rat(k, 1)
NaN == [cls |-> "nan", n |-> 0, d |-> 1]
PInf == [cls |-> "inf", n |-> 1, d |-> 1]
NInf == [cls |-> "ninf", n |-> -1, d |-> 1]

IsFinite(x) == x.cls = "fin"
IsZero(x) == x.cls = "fin" /\ x.n = 0
\* -1, 0 or 1 for a float that is not NaN.
Sign(x) == IF x.n > 0 THEN 1 ELSE IF x.n < 0 THEN -1 ELSE 0
Signed(k) == IF k > 0 THEN PInf ELSE NInf

FNeg(x) ==
    CASE x.cls = "nan" -> NaN
      [] x.cls = "inf" -> NInf
      [] x.cls = "ninf" -> PInf
      [] OTHER -> Rat(-x.n, x.d)

FAdd(x, y) ==
    IF x.cls = "nan" \/ y.cls = "nan" THEN NaN
    ELSE IF ~IsFinite(x) /\ ~IsFinite(y) THEN (IF x.cls = y.cls THEN x ELSE NaN)
    ELSE IF ~IsFinite(x) THEN x
    ELSE IF ~IsFinite(y) THEN y
    ELSE Rat(x.n * y.d + y.n * x.d, x.d * y.d)

FSub(x, y) == FAdd(x, FNeg(y))

FMul(x, y) ==
    IF x.cls = "nan" \/ y.cls = "nan" THEN NaN
    ELSE IF IsFinite(x) /\ IsFinite(y) THEN Rat(x.n * y.n, x.d * y.d)
    ELSE IF IsZero(x) \/ IsZero(y) THEN NaN
    ELSE Signed(Sign(x) * Sign(y))

\* numpy's true division: a zero divisor gives inf or NaN (and a
\* RuntimeWarning), never an exception.
FDiv(x, y) ==
    IF x.cls = "nan" \/ y.cls = "nan" THEN NaN
    ELSE IF IsZero(y) THEN (IF IsZero(x) THEN NaN ELSE Signed(Sign(x)))
    ELSE IF ~IsFinite(y) THEN (IF IsFinite(x) THEN I(0) ELSE NaN)
    ELSE IF ~IsFinite(x) THEN Signed(Sign(x) * Sign(y))
    ELSE Rat(x.n * y.d, x.d * y.n)

\* x < y; False whenever one side is NaN.
FLt(x, y) ==
    IF x.cls = "nan" \/ y.cls = "nan" THEN FALSE
    ELSE IF x.cls = "inf" \/ y.cls = "ninf" THEN FALSE
    ELSE IF x.cls = "ninf" \/ y.cls = "inf" THEN TRUE
    ELSE x.n * y.d < y.n * x.d

\* round(x, digits) with scale = 10^digits: infinities and NaN pass through;
\* a finite value goes to the nearest multiple of 1/scale.  (A tie needs a
\* denominator divisible by 2 * scale's power of two; none of the values
\* explored has one, so the tie rule is not exercised.)
Round(x, scale) ==
    IF ~IsFinite(x) THEN x
    ELSE IF x.d % scale = 0
         THEN LET q == x.d \div scale  \* same quotient, smaller numbers
              IN  [cls |-> "fin", n |-> (2 * x.n + q) \div (2 * q), d |-> scale]
         ELSE [cls |-> "fin", n |-> (2 * x.n * scale + x.d) \div (2 * x.d), d |-> scale]

(***************************************************************************)
(* scipy.stats.norm                                                        *)
(***************************************************************************)

\* 2 * (1 - stats.norm.cdf(abs(z))) of stats.py:28 as a function of z * z, in
\* units of 1e-7 rounded down, for the values of z * z the samples explored
\* produce (computed to double precision as erfc(|z| / sqrt 2)).
norm_sf2_table(z_sq) ==
    CASE
         z_sq.n = 0 /\ z_sq.d = 1 -> 10000000
      [] z_sq.n = 7 /\ z_sq.d = 120 -> 8091498
      [] z_sq.n = 5 /\ z_sq.d = 36 -> 7093881
      [] z_sq.n = 7 /\ z_sq.d = 36 -> 6592430
      [] z_sq.n = 5 /\ z_sq.d = 16 -> 5761501
      [] z_sq.n = 3 /\ z_sq.d = 8 -> 5402913
      [] z_sq.n = 4 /\ z_sq.d = 9 -> 5049850
      [] z_sq.n = 8 /\ z_sq.d = 15 -> 4652088
      [] z_sq.n = 3 /\ z_sq.d = 5 -> 4385780
      [] z_sq.n = 2 /\ z_sq.d = 3 -> 4142161
      [] z_sq.n = 3 /\ z_sq.d = 4 -> 3864762
      [] z_sq.n = 5 /\ z_sq.d = 6 -> 3613104
      [] z_sq.n = 7 /\ z_sq.d = 8 -> 3495748
      [] z_sq.n = 8 /\ z_sq.d = 7 -> 2850494
      [] z_sq.n = 6 /\ z_sq.d = 5 -> 2733216
      [] z_sq.n = 175 /\ z_sq.d = 144 -> 2702893
      [] z_sq.n = 4 /\ z_sq.d = 3 -> 2482130
      [] z_sq.n = 3 /\ z_sq.d = 2 -> 2206713
      [] z_sq.n = 14 /\ z_sq.d = 9 -> 2123171
      [] z_sq.n = 15 /\ z_sq.d = 8 -> 1709035
      [] z_sq.n = 2 /\ z_sq.d = 1 -> 1572992
      [] z_sq.n = 21 /\ z_sq.d = 10 -> 1472991
      [] z_sq.n = 20 /\ z_sq.d = 9 -> 1360371
      [] z_sq.n = 12 /\ z_sq.d = 5 -> 1213352
      [] z_sq.n = 8 /\ z_sq.d = 3 -> 1024704
      [] z_sq.n = 3 /\ z_sq.d = 1 -> 832645
      [] z_sq.n = 56 /\ z_sq.d = 15 -> 533368
      [] z_sq.n = 315 /\ z_sq.d = 82 -> 499998
      [] z_sq.n = 63 /\ z_sq.d = 16 -> 472209
      [] z_sq.n = 4 /\ z_sq.d = 1 -> 455002
      [] z_sq.n = 24 /\ z_sq.d = 5 -> 284597
      [] z_sq.n = 5 /\ z_sq.d = 1 -> 253473
      [] z_sq.n = 6 /\ z_sq.d = 1 -> 143058
      [] z_sq.n = 637 /\ z_sq.d = 96 -> 99970
      [] z_sq.n = 7 /\ z_sq.d = 1 -> 81509
      [] z_sq.n = 8 /\ z_sq.d = 1 -> 46777
      [] z_sq.n = 10000 /\ z_sq.d = 1131 -> 29441

\* stats.py:28, on floats: NaN stays NaN, an infinite z gives 0.
norm_sf2(z_sq) ==
    CASE z_sq.cls = "nan" -> NaN
      [] z_sq.cls = "inf" -> [cls |-> "fin", n |-> 0, d |-> 10000000]
      [] OTHER -> [cls |-> "fin", n |-> norm_sf2_table(z_sq), d |-> 10000000]

\* stats.norm.ppf(q) in units of 1e-3, q in units of 1e-3, for the
\* probabilities explored.
norm_ppf(q) ==
    CASE q = 995 -> 2576
      [] q = 975 -> 1960
      [] q = 950 -> 1645
      [] q = 900 -> 1282
      [] q = 800 -> 842
      [] q = 500 -> 0

\* Significance levels explored, in units of 1e-2: 0.01, 0.05 (the default
\* of stats.py:20 and stats.py:7), 0.10.
Alphas == {1, 5, 10}

(***************************************************************************)
(* ExperimentStats.analyze_proportions                                     *)
(***************************************************************************)

\* Largest number of observations per variant in the grid of samples.
MaxNob == 3

\* Samples <<count_a, nob_a, count_b, nob_b>> explored: every sample with at
\* most MaxNob observations per variant and count <= nob (a variant may have
\* no observation at all), and three larger ones.
GridSamples ==
    {<<ca, na, cb, nb>> : ca \in 0..MaxNob, na \in 0..MaxNob,
                          cb \in 0..MaxNob, nb \in 0..MaxNob}
LargeSamples == {<<21, 21, 20, 24>>, <<1, 6, 15, 20>>, <<600, 5000, 700, 5000>>}
Samples == {s \in GridSamples : s[1] <= s[2] /\ s[3] <= s[4]} \cup LargeSamples

\* The arguments are Python ints ("int", the annotated type) or numpy
\* integers ("np", what main.py:38-39 passes: counts.loc[...] of a DataFrame
\* is a numpy.int64).  Python's / raises ZeroDivisionError on a zero divisor;
\* numpy's / does not.
Kinds == {"int", "np"}

\* The class of lower/upper bound diff -/+ ppf * se (stats.py:30-31); the
\* magnitude of the interval is not tracked.  ppf(1 - alpha/2) is finite and
\* positive for the alphas explored.
ci_class(diff, se_sq, sgn) ==
    LET se == IF se_sq.cls = "fin" /\ se_sq.n < 0 THEN NaN ELSE se_sq
        bound == FAdd(diff, FMul(I(sgn), se))
    IN  bound.cls

\* stats.py:20-40
analyze_proportions(kind, count_a, nob_a, count_b, nob_b, alpha) ==
    IF kind = "int" /\ nob_a = 0 THEN Raise("ZeroDivisionError", 22)
    ELSE IF kind = "int" /\ nob_b = 0 THEN Raise("ZeroDivisionError", 23)
    ELSE
    LET p_a == FDiv(I(count_a), I(nob_a))
        p_b == FDiv(I(count_b), I(nob_b))
        p_pooled == FDiv(I(count_a + count_b), I(nob_a + nob_b))
        \* se * se: the argument of np.sqrt at line 26
        se_sq == FMul(FMul(p_pooled, FSub(I(1), p_pooled)),
                      FAdd(FDiv(I(1), I(nob_a)), FDiv(I(1), I(nob_b))))
        diff == FSub(p_b, p_a)
        \* z_stat * z_stat; np.sqrt of a negative number is NaN
        z_sq == IF se_sq.cls = "fin" /\ se_sq.n < 0 THEN NaN
                ELSE FDiv(FMul(diff, diff), se_sq)
        p_value == norm_sf2(z_sq)
    IN  IF kind = "int" /\ IsZero(p_a) THEN Raise("ZeroDivisionError", 36)
        ELSE Return([p_a |-> Round(p_a, 10000),
                     p_b |-> Round(p_b, 10000),
                     lift |-> Round(FDiv(diff, p_a), 10000),
                     p_value |-> Round(p_value, 100000),
                     ci |-> <<ci_class(diff, se_sq, -1), ci_class(diff, se_sq, 1)>>,
                     significant |-> FLt(p_value, Rat(alpha, 100))])

AnalyzeArgs ==
    {[kind |-> k, count_a |-> s[1], nob_a |-> s[2], count_b |-> s[3], nob_b |-> s[4],
      alpha |-> a] : k \in Kinds, s \in Samples, a \in Alphas}

AnalyzeProportions ==
    /\ op = "analyze_proportions"
    /\ ret = Pending
    /\ ret' = analyze_proportions(args.kind, args.count_a, args.nob_a,
                                  args.count_b, args.nob_b, args.alpha)
    /\ UNCHANGED <<op, args, calls, rng>>

(***************************************************************************)
(* ExperimentStats.calculate_sample_size                                   *)
(*                                                                         *)
(* Fixed point: baseline and mde in units of 1e-2, p1 and p2 in units of   *)
(* 1e-4, the arguments of np.sqrt in units of 1e-8, z_alpha and z_beta in  *)
(* units of 1e-3.  n is the rational n_num / n_den.                        *)
(***************************************************************************)

Baselines == {0, 12, 50, 100}         \* 0, 0.12, 0.5, 1
Mdes == {-50, -10, 0, 10, 100}        \* -0.5, -0.1, 0, 0.1, 1
Powers == {500, 800, 900}             \* 0.5, 0.8 (the default), 0.9; units 1e-3
SizeAlphas == Alphas \cup {100}       \* 0.01, 0.05, 0.10 and 1; units 1e-2

\* Largest r with r * r <= x, for x >= 0.
RECURSIVE isqrt_from(_, _)
isqrt_from(x, r) == IF (r + 1) * (r + 1) > x THEN r ELSE isqrt_from(x, r + 1)
RECURSIVE isqrt(_)
isqrt(x) == IF x < 4 THEN isqrt_from(x, 0)
            ELSE LET h == 2 * isqrt(x \div 4) IN IF (h + 1) * (h + 1) > x THEN h ELSE h + 1

\* np.sqrt on a fixed-point number: NaN for a negative argument.
np_sqrt(x) == IF x < 0 THEN NaN ELSE I(isqrt(x))

\* np.ceil of the rational num / den, den > 0.
ceil_div(num, den) == -((-num) \div den)

\* Variant of to_int that maps infinity and NaN to 0 instead of failing.
to_int_silent(x) ==
    IF x.cls = "fin" THEN Return(ceil_div(x.n, x.d)) ELSE Return(0)

\* int(np.ceil(x)) of stats.py:17: a float infinity or NaN cannot be converted.
to_int(x) ==
    CASE x.cls = "nan" -> Raise("ValueError", 17)
      [] x.cls \in {"inf", "ninf"} -> Raise("OverflowError", 17)
      [] OTHER -> Return(ceil_div(x.n, x.d))

\* stats.py:9-16: the float n, before np.ceil
sample_size_n(baseline, mde, alpha, power) ==
    LET p1 == 100 * baseline
        p2 == baseline * (100 + mde)
        p_sum == p1 + p2                       \* 2 * p_avg
        z_alpha == norm_ppf(1000 - 5 * alpha)  \* ppf(1 - alpha / 2)
        z_beta == norm_ppf(power)
        root1 == np_sqrt((p_sum * (20000 - p_sum)) \div 2)
        root2 == np_sqrt(p1 * (10000 - p1) + p2 * (10000 - p2))
        total == FAdd(FMul(I(z_alpha), root1), FMul(I(z_beta), root2))
        \* kept in units of 1e-4 so that its square stays within 32 bits
        total4 == IF IsFinite(total) THEN I(total.n \div 1000) ELSE total
    IN  FDiv(FMul(total4, total4), I((p1 - p2) * (p1 - p2)))

\* stats.py:7-17
calculate_sample_size(baseline, mde, alpha, power) ==
    to_int(sample_size_n(baseline, mde, alpha, power))

SampleSizeArgs ==
    [baseline : Baselines, mde : Mdes, alpha : SizeAlphas, power : Powers]

CalculateSampleSize ==
    /\ op = "calculate_sample_size"
    /\ ret = Pending
    /\ ret' = calculate_sample_size(args.baseline, args.mde, args.alpha, args.power)
    /\ UNCHANGED <<op, args, calls, rng>>

\* A caller holds the arguments of one call of a statistics function.
InitStats ==
    /\ \/ op = "analyze_proportions" /\ args \in AnalyzeArgs
       \/ op = "calculate_sample_size" /\ args \in SampleSizeArgs
    /\ ret = Pending
    /\ calls = <<>>
    /\ rng = 0

NextStats == AnalyzeProportions \/ CalculateSampleSize

SpecStats == InitStats /\ [][NextStats]_vars

Analyzed == op = "analyze_proportions" /\ ret # Pending
Sized == op = "calculate_sample_size" /\ ret # Pending

\* C7: analyze_proportions with nob_a = 0 or nob_b = 0 fails with a
\* division-by-zero error and returns no result dictionary.
C7_ZeroTrialsRaises ==
    (Analyzed /\ (args.nob_a = 0 \/ args.nob_b = 0)) => ret.raised = "ZeroDivisionError"

\* C8: analyze_proportions with count_a = 0 and nob_a > 0 (p_a = 0) fails
\* with an error; it never returns a result whose lift, p_value or confidence
\* interval is infinite or NaN.  (Stated for nob_b > 0, so that the other
\* variant's rate is defined.)
C8_ZeroBaselineRaises ==
    (Analyzed /\ args.count_a = 0 /\ args.nob_a > 0 /\ args.nob_b > 0) => Raised

\* C9: in every result analyze_proportions returns, 'significant' is true
\* if and only if the 'p_value' field of that result is strictly below alpha.
C9_SignificantIffPValueBelowAlpha ==
    (Analyzed /\ Returned) =>
        (ret.value.significant <=> FLt(ret.value.p_value, Rat(args.alpha, 100)))

\* The float n of the power formula for the arguments of the call.
SizedN == sample_size_n(args.baseline, args.mde, args.alpha, args.power)

\* C10 as stated: calculate_sample_size with mde = 0 fails with an error and
\* returns no integer, for any baseline; whenever it returns, the result is a
\* positive integer not smaller than the real-valued n of the power formula.
C10_SampleSizePositiveOrError ==
    Sized =>
        /\ args.mde = 0 => Raised
        /\ Returned => (IsFinite(SizedN) /\ ret.value >= 1 /\ ret.value * SizedN.d >= SizedN.n)

\* C10 as amended: calculate_sample_size with mde = 0 fails with an error and
\* returns no integer, for any baseline; whenever it returns, the result is
\* the real-valued n rounded up to the next integer (not smaller than n, less
\* than one above it), which is positive unless n itself is 0.
C10_SampleSizeRoundedUpOrError ==
    Sized =>
        /\ args.mde = 0 => Raised
        /\ Returned =>
              /\ IsFinite(SizedN)
              /\ ret.value * SizedN.d >= SizedN.n
              /\ (ret.value - 1) * SizedN.d < SizedN.n
              /\ ret.value >= 1 \/ (ret.value = 0 /\ SizedN.n = 0)

\* C10 witness: baseline 0.12 with mde = 0 ended in the OverflowError of
\* int(inf), no integer returned.
C10_Witness ==
    /\ Sized /\ args.mde = 0 /\ args.baseline = 12
    /\ ret = Raise("OverflowError", 17)

====
